---- MODULE Spec2Model ----
(***************************************************************************)
(* The flappy-bird simulation of src/src/main.ts (edge-latch variant) and  *)
(* of src/unnamed/part_000 (cooldown variant): the step function tick, the *)
(* flap / restart intents and the driver that folds them over the state.   *)
(*                                                                         *)
(* Units.  Horizontal coordinates are whole pixels.  Vertical coordinates  *)
(* and velocities are counted in half pixels, because GRAVITY is 0.5, and  *)
(* a vertical quantity is a record [w, f] standing for the exact number    *)
(* w + f / RNG_M1 half pixels (0 <= f < RNG_M1): a bounce magnitude has    *)
(* the denominator RNG.m - 1, and every number is kept within 32 bits.     *)
(* The code computes in IEEE doubles; the model computes the exact values. *)
(* A schedule entry holds its spawn time in milliseconds and its gap       *)
(* fractions in percent.                                                   *)
(***************************************************************************)
EXTENDS Integers, Sequences, FiniteSets, TLC

\* variant: which of the two programs runs; sched: the parsed schedule;
\* state: the State the driver's scan holds.  prev, lastOp and hist observe the
\* run: the state before the last intent, that intent, and counts kept over
\* the Advance steps.
VARIABLES variant, sched, state, prev, lastOp, hist

vars == <<variant, sched, state, prev, lastOp, hist>>

(* ------------------------------ constants ------------------------------ *)

CANVAS_WIDTH == 600
CANVAS_HEIGHT == 400
BIRB_WIDTH == 42
BIRB_HEIGHT == 30
PIPE_WIDTH == 50
TICK_RATE_MS == 16
\* GRAVITY = 0.5 pixel per tick^2, in half pixels
GRAVITY_HALF == 1
FLAP_VELOCITY == -5
\* PIPE_SPEED of main.ts
PIPE_SPEED == 5
\* PIPE_SPEED of part_000
PIPE_SPEED_part == 3
INITIAL_LIVES == 3
\* the invulnerability window of part_000, in milliseconds
COOLDOWN_MS == 600
\* RNG.m - 1 = 2^31 - 1
RNG_M1 == 2147483647
RNG_a == 1103515245
RNG_c == 12345
SEED_T == 997
SEED_SCORE == 101
SEED_LIVES == 13
\* the number of seeds whose product RNG.a * seed is below 2^53:
\* ceil(2^53 / 1103515245)
EXACT_SEEDS == 8162279

(* ------------------------------- bounds -------------------------------- *)

\* ticks of one run of the edge-latch variant
MaxTick == 135
\* ticks of one run of the cooldown variant
MaxTickPart == 220
\* the edge-latch variant's player may flap when the tick count is a multiple
\* of this
FlapEvery == 8
\* the same for the cooldown variant, whose pipes are slower
FlapEveryPart == 13
\* ticks of a run that no Restart cuts short: the edge-latch variant's, the
\* cooldown variant's
MaxTickLive == 160
MaxTickPartLive == 245
\* in those runs the player may flap when the tick count is a multiple of
\* this: the edge-latch variant's, the cooldown variant's
FlapEveryLive == 10
FlapEveryPartLive == 18
\* the bounce generator is called with the seeds 0 .. MaxSeed and with the
\* seeds within MaxSeed of EXACT_SEEDS
MaxSeed == 60

(* --------------------------- exact arithmetic -------------------------- *)

\* n half pixels
Half(n) == [w |-> n, f |-> 0]

\* n pixels
Px(n) == [w |-> 2 * n, f |-> 0]

Add(a, b) ==
    IF a.f >= RNG_M1 - b.f
    THEN [w |-> a.w + b.w + 1, f |-> a.f - (RNG_M1 - b.f)]
    ELSE [w |-> a.w + b.w, f |-> a.f + b.f]

Neg(a) ==
    IF a.f = 0 THEN [w |-> -a.w, f |-> 0]
    ELSE [w |-> -a.w - 1, f |-> RNG_M1 - a.f]

Lt(a, b) == a.w < b.w \/ (a.w = b.w /\ a.f < b.f)

Gt(a, b) == Lt(b, a)

\* x + y modulo 2^31, for x and y in 0 .. 2^31 - 1
AddMod(x, y) ==
    IF x > RNG_M1 - y THEN (x - (RNG_M1 - y)) - 1 ELSE x + y

\* a * b modulo 2^31
RECURSIVE MulMod(_, _)
MulMod(a, b) ==
    IF b = 0 THEN 0
    ELSE LET h == MulMod(a, b \div 2)
             d == AddMod(h, h)
         IN  IF b % 2 = 1 THEN AddMod(d, a) ELSE d

\* twice the number q + r / RNG_M1
Dbl(n) ==
    IF n.f >= RNG_M1 - n.f
    THEN [w |-> 2 * n.w + 1, f |-> n.f - (RNG_M1 - n.f)]
    ELSE [w |-> 2 * n.w, f |-> 2 * n.f]

(* ---------------------------- bounce generator ------------------------- *)

\* the value, modulo 2^31, of the double nearest to a number of
\* 2^53 .. 2^54 - 1 given modulo 2^31: such doubles are the even integers,
\* and a tie goes to the multiple of 4
roundDouble(x) ==
    IF x % 2 = 0 THEN x
    ELSE IF x % 4 = 1 THEN x - 1
    ELSE AddMod(x, 1)

\* RNG.hash: (a * seed + c) % m in double arithmetic, for seed < 2 * EXACT_SEEDS.
\* The product a * seed is below 2^53, and so exact, for the first EXACT_SEEDS
\* seeds; from there to 2^54 the product and the sum are each rounded to a
\* double.  The seeds of the runs modelled here stay far below EXACT_SEEDS.
hash(seed) ==
    LET p == MulMod(RNG_a, seed)
    IN  IF seed < EXACT_SEEDS THEN AddMod(p, RNG_c)
        ELSE roundDouble(AddMod(roundDouble(p), RNG_c))

\* |2 * hash - (m - 1)|: the numerator of |RNG.scale(hash)| over m - 1
scaleAbsNum(h) ==
    LET d == (h - RNG_M1) + h
    IN  IF d < 0 THEN -d ELSE d

\* generateBounceVelocity, in half pixels: 8 + 8 * |scaled|
generateBounceVelocity(seed) ==
    LET n == scaleAbsNum(hash(seed))
        eight == IF n = RNG_M1 THEN [w |-> 8, f |-> 0]
                 ELSE Dbl(Dbl(Dbl([w |-> 0, f |-> n])))
    IN  Add(Half(8), eight)

(* ------------------------------ the state ------------------------------ *)

\* initialState of main.ts
initialState ==
    [gameStarted |-> FALSE, gameEnd |-> FALSE, gameTime |-> 0,
     birdY |-> Px(CANVAS_HEIGHT \div 2), birdVy |-> Half(0),
     lives |-> INITIAL_LIVES, score |-> 0, pipes |-> << >>,
     nextPipeIdx |-> 0, inContact |-> FALSE]

\* initialState of part_000
initialState_part ==
    [gameStarted |-> FALSE, gameEnd |-> FALSE, gameTime |-> 0,
     birdY |-> Px(CANVAS_HEIGHT \div 2), birdVy |-> Half(0),
     lives |-> INITIAL_LIVES, score |-> 0, pipes |-> << >>,
     nextPipeIdx |-> 0, collisionCooldown |-> 0]

(* ------------------------ the steps both ticks share ------------------- *)

\* sched[i] of the code (0-based) is sch[i + 1]
\* the while loop's condition: the next descriptor's time has arrived
spawnDue(next, t, sch) ==
    next < Len(sch) /\ sch[next + 1].time <= t * TICK_RATE_MS

\* mutant: an if in place of the while: one pipe a step at most
spawnLoop_once(next, t, sch) == IF spawnDue(next, t, sch) THEN next + 1 ELSE next

\* the value of next when the while loop ends
RECURSIVE spawnLoop(_, _, _)
spawnLoop(next, t, sch) ==
    IF spawnDue(next, t, sch) THEN spawnLoop(next + 1, t, sch) ELSE next

\* top: the bird's centre cannot go above it
top == Half(BIRB_HEIGHT)

\* bot: the bird's centre cannot go below it
bot == Half(2 * CANVAS_HEIGHT - BIRB_HEIGHT)

\* mutant: the clamp without its Math.max(top, ...)
yClampedOf_noTop(y) == IF Lt(y, bot) THEN y ELSE bot

\* Math.max(top, Math.min(bot, y))
yClampedOf(y) ==
    LET lo == IF Lt(y, bot) THEN y ELSE bot
    IN  IF Gt(lo, top) THEN lo ELSE top

\* the bird's box: bx = CANVAS_WIDTH * 0.3, L and R its left and right edge
birdL == (CANVAS_WIDTH * 3) \div 10 - BIRB_WIDTH \div 2

birdR == (CANVAS_WIDTH * 3) \div 10 + BIRB_WIDTH \div 2

\* T and B, the bird's top and bottom edge
birdT(yClamped) == Add(yClamped, Half(-BIRB_HEIGHT))

birdB(yClamped) == Add(yClamped, Half(BIRB_HEIGHT))

gapTop(p) == Half(2 * p.gapYpx - p.gapHpx)

gapBot(p) == Half(2 * p.gapYpx + p.gapHpx)

overlapX(p) == birdR > p.x /\ birdL < p.x + PIPE_WIDTH

\* hitTop || hitBottom of one pipe
hitThisPipe(p, yClamped) ==
    overlapX(p) /\ (Lt(birdT(yClamped), gapTop(p)) \/ Gt(birdB(yClamped), gapBot(p)))

\* mutant: a pipe is passed anew on every step it lies behind the bird
justPassed_again(p) == birdL > p.x + PIPE_WIDTH

\* justPassed: the bird's left edge is beyond the pipe's right edge
justPassed(p) == ~p.passed /\ birdL > p.x + PIPE_WIDTH

screenHitTop(y) == Lt(y, top)

screenHitBot(y) == Gt(y, bot)

\* hit || screenHitTop || screenHitBot
collisionOccurred(pipes, y) ==
    \/ \E i \in 1..Len(pipes) : hitThisPipe(pipes[i], yClampedOf(y))
    \/ screenHitTop(y)
    \/ screenHitBot(y)

\* the seed of the bounce
bounceSeed(t, s) == t * SEED_T + s.score * SEED_SCORE + s.lives * SEED_LIVES

\* mutant: only the top of the screen sends the bird down
collidedWithTopHalf_screenOnly(pipes, y) == Lt(y, top)

collidedWithTopHalf(pipes, y) ==
    \/ Lt(y, top)
    \/ \E i \in 1..Len(pipes) :
          overlapX(pipes[i]) /\ Lt(birdT(yClampedOf(y)), gapTop(pipes[i]))

\* the velocity after a life is lost
bounceVelocity(t, s, pipes, y) ==
    LET bounceMagnitude == generateBounceVelocity(bounceSeed(t, s))
    IN  IF collidedWithTopHalf(pipes, y) THEN bounceMagnitude ELSE Neg(bounceMagnitude)

\* mutant: the end test without its livesRemaining <= 0
gameEndOf_onlyExhausted(livesRemaining, next, sch, updatedPipes) ==
    next >= Len(sch) /\ Len(updatedPipes) = 0

\* mutant: the end test does not wait for the last pipes to leave
gameEndOf_spawnedAll(livesRemaining, next, sch, updatedPipes) ==
    livesRemaining <= 0 \/ next >= Len(sch)

\* the game ends out of lives, or with the schedule spawned and no pipe left
gameEndOf(livesRemaining, next, sch, updatedPipes) ==
    livesRemaining <= 0 \/ (next >= Len(sch) /\ Len(updatedPipes) = 0)

\* mutant: tick without its early return
frozen_never(s) == FALSE

\* mutant: the early return taken only when the lives are spent
frozen_outOfLives(s) == s.lives <= 0

\* if (s.gameEnd) return s
frozen(s) == s.gameEnd

(* --------------------------- tick of main.ts --------------------------- *)

\* the live pipe made of descriptor sch[id + 1]
newPipe(id, sch) ==
    [id |-> id, x |-> CANVAS_WIDTH,
     gapYpx |-> (sch[id + 1].gapY * CANVAS_HEIGHT) \div 100,
     gapHpx |-> (sch[id + 1].gapH * CANVAS_HEIGHT) \div 100,
     passed |-> FALSE, touched |-> FALSE, blocked |-> FALSE]

\* the pipes after the spawn loop
spawned(s, next, sch) ==
    s.pipes \o [i \in 1..(next - s.nextPipeIdx) |-> newPipe(s.nextPipeIdx + i - 1, sch)]

\* mutant: a pipe is dropped as soon as the bird's left edge is beyond it
stillVisible_early(p) == p.x + PIPE_WIDTH >= birdL

\* mutant: a pipe is dropped when its left edge has left the screen
stillVisible_leftEdge(p) == p.x >= 0

\* mutant: no pipe is ever dropped
stillVisible_always(p) == TRUE

\* the filter of move and cull
stillVisible(p) == p.x + PIPE_WIDTH >= 0

\* move all pipes left, drop those that have left the screen
moved(ps) ==
    SelectSeq([i \in 1..Len(ps) |-> [ps[i] EXCEPT !.x = @ - PIPE_SPEED]], stillVisible)

\* one pipe after the fold: passed and touched brought up to date
updatedPipe(p, yClamped) ==
    [p EXCEPT !.passed = p.passed \/ justPassed(p),
              !.touched = p.touched \/ hitThisPipe(p, yClamped)]

\* mutant: a touched pipe scores as well
scores_ignoreTouched(p, yClamped) == justPassed(p)

\* a pipe scores when it is passed and was never touched
scores(p, yClamped) ==
    justPassed(p) /\ ~(p.touched \/ hitThisPipe(p, yClamped))

\* scoreInc: the points of this frame
scoreInc(ps, yClamped) ==
    Cardinality({i \in 1..Len(ps) : scores(ps[i], yClamped)})

\* mutant: a life is consumed on every colliding step
shouldConsumeLife_noLatch(s, collided) == collided /\ s.lives > 0

\* mutant: a life is consumed while contact lasts, not when it begins
shouldConsumeLife_inverted(s, collided) == s.inContact /\ collided /\ s.lives > 0

\* edge trigger: a life is consumed only when contact begins
shouldConsumeLife(s, collided) ==
    ~s.inContact /\ collided /\ s.lives > 0

\* y, the unclamped position of the step out of s
unclampedY(s) == Add(s.birdY, Add(s.birdVy, Half(GRAVITY_HALF)))

\* mutant: the velocity is reset when the position is clamped
fallVelocity_stopAtBound(s) ==
    IF Lt(unclampedY(s), top) \/ Gt(unclampedY(s), bot)
    THEN Half(0) ELSE Add(s.birdVy, Half(GRAVITY_HALF))

\* vy, the velocity after gravity; the clamp of the position leaves it alone
fallVelocity(s) == Add(s.birdVy, Half(GRAVITY_HALF))

\* moved, the pipes of the step out of s
movedIn(s, sch) == moved(spawned(s, spawnLoop(s.nextPipeIdx, s.gameTime + 1, sch), sch))

\* collisionOccurred of the step out of s
collisionIn(s, sch) == collisionOccurred(movedIn(s, sch), unclampedY(s))

\* hit before the screen edges are merged in: some pipe is struck
pipeHitIn(s, sch) ==
    \E i \in 1..Len(movedIn(s, sch)) :
        hitThisPipe(movedIn(s, sch)[i], yClampedOf(unclampedY(s)))

\* mutant: the life is added, not taken
livesAfter_gain(s, consume) == IF consume THEN s.lives + 1 ELSE s.lives

\* livesRemaining
livesAfter(s, consume) == IF consume THEN s.lives - 1 ELSE s.lives

tick(s, sch) ==
    IF frozen(s) THEN s
    ELSE
    LET t == s.gameTime + 1
        next == spawnLoop(s.nextPipeIdx, t, sch)
        mv == movedIn(s, sch)
        vy == fallVelocity(s)
        y == unclampedY(s)
        yClamped == yClampedOf(y)
        updatedPipes == [i \in 1..Len(mv) |-> updatedPipe(mv[i], yClamped)]
        collided == collisionOccurred(mv, y)
        consume == shouldConsumeLife(s, collided)
        livesRemaining == livesAfter(s, consume)
    IN  [s EXCEPT
           !.gameTime = t,
           !.birdVy = IF consume THEN bounceVelocity(t, s, updatedPipes, y) ELSE vy,
           !.birdY = yClamped,
           !.pipes = updatedPipes,
           !.nextPipeIdx = next,
           !.lives = livesRemaining,
           !.score = s.score + scoreInc(mv, yClamped),
           !.gameEnd = gameEndOf(livesRemaining, next, sch, updatedPipes),
           !.inContact = collided]

(* --------------------------- tick of part_000 -------------------------- *)

newPipe_part(id, sch) ==
    [id |-> id, x |-> CANVAS_WIDTH,
     gapYpx |-> (sch[id + 1].gapY * CANVAS_HEIGHT) \div 100,
     gapHpx |-> (sch[id + 1].gapH * CANVAS_HEIGHT) \div 100,
     passed |-> FALSE]

spawned_part(s, next, sch) ==
    s.pipes \o [i \in 1..(next - s.nextPipeIdx) |-> newPipe_part(s.nextPipeIdx + i - 1, sch)]

moved_part(ps) ==
    SelectSeq([i \in 1..Len(ps) |-> [ps[i] EXCEPT !.x = @ - PIPE_SPEED_part]], stillVisible)

updatedPipe_part(p) ==
    IF justPassed(p) THEN [p EXCEPT !.passed = TRUE] ELSE p

\* mutant: one point a step at most
scoreInc_part_one(ps) ==
    IF \E i \in 1..Len(ps) : justPassed(ps[i]) THEN 1 ELSE 0

\* scoreInc of part_000: every pipe just passed counts
scoreInc_part(ps) ==
    Cardinality({i \in 1..Len(ps) : justPassed(ps[i])})

\* mutant: the cooldown runs down twice as fast
nextCooldownOf_fast(s) ==
    IF s.collisionCooldown - 2 * TICK_RATE_MS > 0
    THEN s.collisionCooldown - 2 * TICK_RATE_MS ELSE 0

\* Math.max(0, s.collisionCooldown - TICK_RATE_MS)
nextCooldownOf(s) ==
    IF s.collisionCooldown - TICK_RATE_MS > 0 THEN s.collisionCooldown - TICK_RATE_MS ELSE 0

\* mutant: the cooldown is not consulted
shouldConsumeLife_part_noCooldown(s, collided) == collided /\ s.lives > 0

shouldConsumeLife_part(s, collided) ==
    nextCooldownOf(s) <= 0 /\ collided /\ s.lives > 0

movedIn_part(s, sch) ==
    moved_part(spawned_part(s, spawnLoop(s.nextPipeIdx, s.gameTime + 1, sch), sch))

collisionIn_part(s, sch) == collisionOccurred(movedIn_part(s, sch), unclampedY(s))

pipeHitIn_part(s, sch) ==
    \E i \in 1..Len(movedIn_part(s, sch)) :
        hitThisPipe(movedIn_part(s, sch)[i], yClampedOf(unclampedY(s)))

tick_part(s, sch) ==
    IF frozen(s) THEN s
    ELSE
    LET t == s.gameTime + 1
        next == spawnLoop(s.nextPipeIdx, t, sch)
        mv == movedIn_part(s, sch)
        vy == fallVelocity(s)
        y == unclampedY(s)
        yClamped == yClampedOf(y)
        updatedPipes == [i \in 1..Len(mv) |-> updatedPipe_part(mv[i])]
        collided == collisionOccurred(mv, y)
        consume == shouldConsumeLife_part(s, collided)
        livesRemaining == livesAfter(s, consume)
    IN  [s EXCEPT
           !.gameTime = t,
           !.birdVy = IF consume THEN bounceVelocity(t, s, updatedPipes, y) ELSE vy,
           !.birdY = yClamped,
           !.pipes = updatedPipes,
           !.nextPipeIdx = next,
           !.lives = livesRemaining,
           !.score = s.score + scoreInc_part(mv),
           !.gameEnd = gameEndOf(livesRemaining, next, sch, updatedPipes),
           !.collisionCooldown = IF consume THEN COOLDOWN_MS ELSE nextCooldownOf(s)]

(* ------------------------------ the intents ---------------------------- *)

\* mutant: the flap is added to the velocity
flap_impulse(s) ==
    [s EXCEPT !.gameStarted = TRUE, !.birdVy = Add(@, Px(FLAP_VELOCITY))]

\* mutant: the flap also starts the schedule again
flap_respawn(s) ==
    [s EXCEPT !.gameStarted = TRUE, !.birdVy = Px(FLAP_VELOCITY),
              !.pipes = << >>, !.nextPipeIdx = 0]

\* the flap of both variants: { ...s, gameStarted: true, birdVy: FLAP_VELOCITY }
flap(s) == [s EXCEPT !.gameStarted = TRUE, !.birdVy = Px(FLAP_VELOCITY)]

\* mutant: the restart is honoured while the game runs
restart_part_always(s) == initialState_part

\* the restart case of part_000's reducer
restart_part(s) == IF s.gameEnd THEN initialState_part ELSE s

\* mutant: the restart is honoured only once the game has ended
restart_ifEnded(s) == IF s.gameEnd THEN initialState ELSE s

\* main.ts: switchMap subscribes to a new runGame, whose scan starts afresh
restart(s) == initialState

(* ----------------------------- the schedules --------------------------- *)

\* no pipe; one pipe with its gap mid-screen; a narrow low gap and a gap as
\* high as the screen, both due at the first tick, then a second narrow gap
\* 400 ms later; one pipe whose gap, lower than the bird is high, lies at the
\* floor
Schedules ==
    { << >>,
      << [time |-> 0, gapY |-> 50, gapH |-> 50] >>,
      << [time |-> 0, gapY |-> 75, gapH |-> 25],
         [time |-> 0, gapY |-> 50, gapH |-> 100],
         [time |-> 400, gapY |-> 75, gapH |-> 25] >>,
      << [time |-> 0, gapY |-> 96, gapH |-> 4] >> }

(* --------------------------- what the run observes --------------------- *)

\* run, runPipe: how many Advance steps in a row detected a collision, a
\* collision with a pipe; runLives, runPipeLives: the lives before that row;
\* sinceLoss: Advance steps since the last one that lost a life (-1: none
\* yet); lossGap: Advance steps between the last two that lost a life (0:
\* fewer than two); hitIds: the ids of the pipes that overlapped the bird
\* outside their gap on some Advance of the run
noHist ==
    [run |-> 0, runLives |-> INITIAL_LIVES, runPipe |-> 0, runPipeLives |-> INITIAL_LIVES,
     sinceLoss |-> -1, lossGap |-> 0, hitIds |-> {}]

histAfterTick(h, s, s2, collided, pipeHit) ==
    IF s.gameEnd THEN h
    ELSE
    [run |-> IF collided THEN h.run + 1 ELSE 0,
     runLives |-> IF collided /\ h.run > 0 THEN h.runLives ELSE s.lives,
     runPipe |-> IF pipeHit THEN h.runPipe + 1 ELSE 0,
     runPipeLives |-> IF pipeHit /\ h.runPipe > 0 THEN h.runPipeLives ELSE s.lives,
     sinceLoss |-> IF s2.lives < s.lives THEN 0
                   ELSE IF h.sinceLoss < 0 THEN -1 ELSE h.sinceLoss + 1,
     lossGap |-> IF s2.lives < s.lives /\ h.sinceLoss >= 0 THEN h.sinceLoss + 1
                 ELSE h.lossGap,
     hitIds |-> h.hitIds \cup {s2.pipes[i].id : i \in {j \in 1..Len(s2.pipes) :
                                                      hitThisPipe(s2.pipes[j], s2.birdY)}}]

(* ------------------------------ the driver ----------------------------- *)

Init ==
    /\ variant \in {"latch", "cooldown"}
    /\ sched \in Schedules
    /\ state = IF variant = "latch" THEN initialState ELSE initialState_part
    /\ prev = state
    /\ lastOp = "init"
    /\ hist = noHist

\* the player's key presses (flap, restart) come at multiples of FlapEvery
\* ticks, and at any time once the game has ended
mayPress(s) == s.gameEnd \/ s.gameTime % FlapEvery = 0

mayPress_part(s) == s.gameEnd \/ s.gameTime % FlapEveryPart = 0

\* main.ts: tick$ folded by scan, until takeWhile has seen the game end
Tick ==
    /\ variant = "latch"
    /\ ~state.gameEnd
    /\ state.gameTime < MaxTick
    /\ state' = tick(state, sched)
    /\ prev' = state
    /\ lastOp' = "tick"
    /\ hist' = histAfterTick(hist, state, state', collisionIn(state, sched), pipeHitIn(state, sched))
    /\ UNCHANGED <<variant, sched>>

\* main.ts: flap$ folded by scan, until takeWhile has seen the game end
Flap ==
    /\ variant = "latch"
    /\ ~state.gameEnd
    /\ mayPress(state)
    /\ state' = flap(state)
    /\ prev' = state
    /\ lastOp' = "flap"
    /\ UNCHANGED <<variant, sched, hist>>

\* main.ts: restart$ switches to a new run at any time
Restart ==
    /\ variant = "latch"
    /\ mayPress(state)
    /\ state' = restart(state)
    /\ prev' = state
    /\ lastOp' = "restart"
    /\ hist' = noHist
    /\ UNCHANGED <<variant, sched>>

\* part_000: the reducer's tick case
Tick_part ==
    /\ variant = "cooldown"
    /\ state.gameEnd \/ state.gameTime < MaxTickPart
    /\ state' = tick_part(state, sched)
    /\ prev' = state
    /\ lastOp' = "tick"
    /\ hist' = histAfterTick(hist, state, state', collisionIn_part(state, sched),
                             pipeHitIn_part(state, sched))
    /\ UNCHANGED <<variant, sched>>

\* part_000: the reducer's flap case
Flap_part ==
    /\ variant = "cooldown"
    /\ mayPress_part(state)
    /\ state' = flap(state)
    /\ prev' = state
    /\ lastOp' = "flap"
    /\ UNCHANGED <<variant, sched, hist>>

\* part_000: the reducer's restart case
Restart_part ==
    /\ variant = "cooldown"
    /\ mayPress_part(state)
    /\ state' = restart_part(state)
    /\ prev' = state
    /\ lastOp' = "restart"
    /\ hist' = IF state.gameEnd THEN noHist ELSE hist
    /\ UNCHANGED <<variant, sched>>

Next == Tick \/ Flap \/ Restart \/ Tick_part \/ Flap_part \/ Restart_part

Spec == Init /\ [][Next]_vars

(* ------------------------------ properties ---------------------------- *)

Le(a, b) == ~Lt(b, a)

\* the variant's step function
tickOf(s, sch) == IF variant = "latch" THEN tick(s, sch) ELSE tick_part(s, sch)

\* whether the Advance out of s detects a collision, a collision with a pipe
collidedOut(s) ==
    IF variant = "latch" THEN collisionIn(s, sched) ELSE collisionIn_part(s, sched)

pipeHitOut(s) ==
    IF variant = "latch" THEN pipeHitIn(s, sched) ELSE pipeHitIn_part(s, sched)

\* the last intent was an Advance that found the game running
advanced == lastOp = "tick" /\ ~prev.gameEnd

\* C1: in both variants tick returns a state with gameEnd = true unchanged in
\* every field, whatever the schedule; an Advance of the driver applied to an
\* ended state leaves the state as it was.
C1_AbsorbingTick ==
    /\ state.gameEnd => \A sch \in Schedules : tickOf(state, sch) = state
    /\ (lastOp = "tick" /\ prev.gameEnd) => state = prev

\* an Advance was applied to an ended state that still had lives
C1_Witness ==
    variant = "cooldown" /\ lastOp = "tick" /\ prev.gameEnd /\ prev.lives > 0

\* C2 as stated: once gameEnd = true, no field changes under any Advance or
\* Flap.
C2_Original ==
    (prev.gameEnd /\ lastOp \in {"tick", "flap"}) => state = prev

\* C2 amended: once gameEnd = true, an Advance changes no field; a Flap, which
\* the cooldown variant's reducer still applies, sets birdVy to the flap
\* constant and gameStarted to true and changes no other field; the edge-latch
\* variant's driver applies neither after the end; only a Restart changes
\* gameEnd, lives, score, the pipes, nextPipeIdx, gameTime, birdY or the
\* cooldown.
C2_EndedFrame ==
    prev.gameEnd =>
        /\ lastOp = "tick" => state = prev
        /\ lastOp = "flap" =>
              /\ variant = "cooldown"
              /\ state = [prev EXCEPT !.birdVy = Px(FLAP_VELOCITY), !.gameStarted = TRUE]
        /\ variant = "latch" => lastOp = "restart"

\* a Flap reached an ended state and changed its velocity
C2_Witness ==
    /\ variant = "cooldown" /\ lastOp = "flap" /\ prev.gameEnd
    /\ state.gameEnd /\ state.birdVy # prev.birdVy

\* C3: in every reachable state of both variants 0 <= lives <= 3.
C3_LivesBounded == state.lives >= 0 /\ state.lives <= INITIAL_LIVES

\* the last life was lost in this Advance
C3_Witness == advanced /\ prev.lives = 1 /\ state.lives = 0

\* C4: without a Restart nextPipeIdx never decreases, and in every reachable
\* state 0 <= nextPipeIdx <= schedule length.
C4_PointerMonotone ==
    /\ state.nextPipeIdx >= 0
    /\ state.nextPipeIdx <= Len(sched)
    /\ lastOp \in {"tick", "flap"} => state.nextPipeIdx >= prev.nextPipeIdx

\* the pointer moved to the end of a schedule of several pipes
C4_Witness ==
    /\ advanced /\ Len(sched) > 1
    /\ state.nextPipeIdx > prev.nextPipeIdx /\ prev.nextPipeIdx > 0
    /\ state.nextPipeIdx = Len(sched)

\* C5 as stated: birdY lies in [15, 385], and after any Advance whose
\* unclamped position birdY + birdVy + gravity is below 15 or above 385, birdY
\* is exactly 15 or exactly 385.
C5_Original ==
    /\ Le(top, state.birdY) /\ Le(state.birdY, bot)
    /\ lastOp = "tick" =>
          /\ Lt(unclampedY(prev), top) => state.birdY = top
          /\ Gt(unclampedY(prev), bot) => state.birdY = bot

\* C5 amended: birdY lies in [15, 385] in every reachable state, and after an
\* Advance of a state that has not ended whose unclamped position is below 15
\* or above 385, birdY is exactly 15 or exactly 385.
C5_BirdYBounded ==
    /\ Le(top, state.birdY) /\ Le(state.birdY, bot)
    /\ advanced =>
          /\ Lt(unclampedY(prev), top) => state.birdY = top
          /\ Gt(unclampedY(prev), bot) => state.birdY = bot

\* the bird was pinned to the top bound from below it
C5_Witness ==
    advanced /\ Lt(unclampedY(prev), top) /\ Gt(prev.birdY, top) /\ state.birdY = top

\* C6: in the edge-latch variant, over any row of consecutive Advance steps
\* that each detect a collision, Flaps interleaved, lives falls by at most 1.
C6_LatchOneLoss ==
    (variant = "latch" /\ hist.run >= 1) => hist.runLives - state.lives <= 1

\* a row of five colliding steps with a Flap inside it has cost one life
C6_Witness ==
    /\ variant = "latch" /\ hist.run >= 5 /\ lastOp = "flap"
    /\ hist.runLives - state.lives = 1

\* C7 as stated: in the cooldown variant, over any row of two or more
\* consecutive Advance steps that each collide with a pipe, lives falls by at
\* most 1.
C7_Original ==
    (variant = "cooldown" /\ hist.runPipe >= 2) => hist.runPipeLives - state.lives <= 1

\* C7 amended: the same for a row of 2 to 38 such steps.
C7_CooldownOneLoss ==
    (variant = "cooldown" /\ hist.runPipe >= 2 /\ hist.runPipe <= 38)
        => hist.runPipeLives - state.lives <= 1

\* a row of 38 steps colliding with a pipe has cost one life
C7_Witness ==
    /\ variant = "cooldown" /\ hist.runPipe = 38
    /\ hist.runPipeLives - state.lives = 1

\* C8: in the cooldown variant, within one run, two Advance steps that lose a
\* life are at least 38 ticks apart: none of the 37 steps after a loss loses
\* a life.
C8_LossesApart ==
    (variant = "cooldown" /\ hist.lossGap # 0) => hist.lossGap >= 38

\* a second life was lost exactly 38 steps after the first
C8_Witness ==
    variant = "cooldown" /\ advanced /\ state.lives < prev.lives /\ hist.lossGap = 38

\* C9 as stated: in both variants an Advance of a running state with lives = 1
\* that detects a collision returns lives = 0 and gameEnd = true.
C9_Original ==
    (advanced /\ prev.lives = 1 /\ collidedOut(prev))
        => (state.lives = 0 /\ state.gameEnd)

\* C9 amended: it does so when the variant's guard is open, that is, when
\* inContact is false before the step (edge-latch) or the cooldown left after
\* this tick is 0 (cooldown); with the guard closed lives stays 1.
C9_LastLife ==
    (advanced /\ prev.lives = 1 /\ collidedOut(prev)) =>
        IF (variant = "latch" /\ ~prev.inContact)
           \/ (variant = "cooldown" /\ prev.collisionCooldown <= TICK_RATE_MS)
        THEN state.lives = 0 /\ state.gameEnd
        ELSE state.lives = 1

\* the last life went in a collision with a pipe
C9_Witness ==
    /\ advanced /\ prev.lives = 1 /\ pipeHitOut(prev)
    /\ state.lives = 0 /\ state.gameEnd

\* C10: a Flap sets birdVy to exactly -5 whatever it was, sets gameStarted,
\* and leaves every other field as it was; a second Flap changes nothing.
C10_FlapOverwrite ==
    lastOp = "flap" =>
        /\ state.birdVy = Px(FLAP_VELOCITY)
        /\ state.gameStarted
        /\ state = [prev EXCEPT !.birdVy = state.birdVy, !.gameStarted = state.gameStarted]
        /\ flap(state) = state

\* a Flap overwrote a downward velocity left by a bounce
C10_Witness ==
    /\ lastOp = "flap" /\ Gt(prev.birdVy, Px(0)) /\ prev.birdVy.f # 0
    /\ prev.lives < INITIAL_LIVES

\* the fields every fresh run starts with
freshFields(s) ==
    /\ s.lives = 3 /\ s.score = 0 /\ s.pipes = << >> /\ s.nextPipeIdx = 0
    /\ s.gameTime = 0 /\ s.birdY = Px(200) /\ s.birdVy = Px(0)
    /\ ~s.gameStarted /\ ~s.gameEnd

\* C11: in the cooldown variant's reducer a Restart of a state with gameEnd =
\* false returns it unchanged, and a Restart of a state with gameEnd = true
\* returns the initial state: lives 3, score 0, no pipes, nextPipeIdx 0,
\* gameTime 0, cooldown 0, birdY 200, birdVy 0, gameStarted false.
C11_RestartWhenEnded ==
    (variant = "cooldown" /\ lastOp = "restart") =>
        IF prev.gameEnd
        THEN /\ freshFields(state)
             /\ state.collisionCooldown = 0
             /\ DOMAIN state = DOMAIN prev
        ELSE state = prev

\* a game that ended with a point scored and a cooldown running was restarted
C11_Witness ==
    /\ variant = "cooldown" /\ lastOp = "restart" /\ prev.gameEnd
    /\ prev.score > 0 /\ prev.collisionCooldown > 0 /\ state.score = 0

\* the same, for a game still running: nothing changed
C11_WitnessRunning ==
    /\ variant = "cooldown" /\ lastOp = "restart" /\ ~prev.gameEnd
    /\ prev.gameTime > 0 /\ prev.lives < 3

\* C12: in the edge-latch variant's driver a Restart, whether the run has
\* ended or not, begins a fresh run: the scan holds the initial state again,
\* and the next state emitted is the next Advance or Flap applied to the
\* initial state.
C12_RestartAlways ==
    [][variant = "latch" =>
         /\ lastOp' = "restart" => (freshFields(state') /\ ~state'.inContact)
         /\ (lastOp = "restart" /\ lastOp' = "tick") =>
               (freshFields(prev') /\ state' = tick(prev', sched))
         /\ (lastOp = "restart" /\ lastOp' = "flap") =>
               (freshFields(prev') /\ state' = flap(prev'))]_vars

\* a run that had lost a life and was still going was restarted
C12_Witness ==
    /\ variant = "latch" /\ lastOp = "restart" /\ ~prev.gameEnd
    /\ prev.lives < 3 /\ prev.gameTime > 0 /\ state.gameTime = 0

\* the schedule of the end-to-end scenario: one pipe, gap centre 0.5, gap
\* height 0.5, due at time 0
oneMidPipe == << [time |-> 0, gapY |-> 50, gapH |-> 50] >>

\* the Advance on which that pipe is dropped: x = 600 - k*speed, dropped when
\* x + 50 < 0
cullTick ==
    (CANVAS_WIDTH + PIPE_WIDTH) \div (IF variant = "latch" THEN PIPE_SPEED ELSE PIPE_SPEED_part) + 1

wasPassed(q) ==
    \E i \in 1..Len(prev.pipes) : prev.pipes[i].id = q.id /\ prev.pipes[i].passed

wasTouched(q) ==
    \E i \in 1..Len(prev.pipes) : prev.pipes[i].id = q.id /\ prev.pipes[i].touched

\* the pipes whose passed flag the step has set
newlyPassed == {i \in 1..Len(state.pipes) : state.pipes[i].passed /\ ~wasPassed(state.pipes[i])}

\* C14: in the edge-latch variant a pipe's passed flag is set on the Advance
\* after which the bird's left edge (159) is strictly beyond the pipe's x + 50,
\* a pipe awards exactly one point on that Advance if and only if its touched
\* flag is false, and touched is sticky: set on any step on which the pipe
\* overlaps the bird outside its gap and never cleared.
C14_ScoreUntouched ==
    (variant = "latch" /\ advanced) =>
        /\ \A i \in 1..Len(state.pipes) :
             LET q == state.pipes[i]
             IN  /\ q.passed <=> (wasPassed(q) \/ 159 > q.x + 50)
                 /\ q.touched <=>
                      \/ wasTouched(q)
                      \/ /\ 201 > q.x /\ 159 < q.x + 50
                         /\ \/ Lt(Add(state.birdY, Px(-15)), Half(2 * q.gapYpx - q.gapHpx))
                            \/ Gt(Add(state.birdY, Px(15)), Half(2 * q.gapYpx + q.gapHpx))
        /\ state.score - prev.score =
             Cardinality({i \in newlyPassed : ~state.pipes[i].touched})

\* a pipe that had been touched was passed, and no point was awarded
C14_Witness ==
    /\ variant = "latch" /\ advanced
    /\ \E i \in newlyPassed : state.pipes[i].touched
    /\ state.score = prev.score

\* an untouched pipe was passed and awarded its point
C14_WitnessPoint ==
    /\ variant = "latch" /\ advanced
    /\ \E i \in newlyPassed : ~state.pipes[i].touched
    /\ state.score = prev.score + 1

(* ----------------------- the bounce generator alone -------------------- *)

Seeds == (0..MaxSeed) \cup ((EXACT_SEEDS - MaxSeed)..(EXACT_SEEDS + MaxSeed))

\* a caller about to call generateBounceVelocity(seed)
InitRNG ==
    /\ variant = "rng"
    /\ sched = << >>
    /\ \E seed \in Seeds :
          state = [seed |-> seed, called |-> FALSE, h |-> 0, v |-> Half(0)]
    /\ prev = state
    /\ lastOp = "init"
    /\ hist = noHist

\* const h = RNG.hash(seed); return 4 + Math.abs(RNG.scale(h)) * 4
GenerateBounce ==
    /\ ~state.called
    /\ state' = [state EXCEPT !.called = TRUE,
                              !.h = hash(state.seed),
                              !.v = generateBounceVelocity(state.seed)]
    /\ prev' = state
    /\ lastOp' = "bounce"
    /\ UNCHANGED <<variant, sched, hist>>

NextRNG == GenerateBounce

SpecRNG == InitRNG /\ [][NextRNG]_vars

\* the linear congruential hash in exact integer arithmetic
lcg(seed) == AddMod(MulMod(RNG_a, seed), RNG_c)

\* C15: for every non-negative integer seed RNG.hash(seed) is
\* (1103515245 * seed + 12345) mod 2^31 and lies in 0 .. 2^31 - 1, and
\* generateBounceVelocity(seed) lies in [4, 8] pixels, that is [8, 16] half
\* pixels.
C15_Original ==
    state.called =>
        /\ state.h = lcg(state.seed)
        /\ state.h \in 0..RNG_M1
        /\ Le(Half(8), state.v) /\ Le(state.v, Half(16))

\* what does hold of C15: the ranges for every seed called, and the hash
\* formula for the seeds whose product is exact
C15_Ranges ==
    state.called =>
        /\ state.h \in 0..RNG_M1
        /\ Le(Half(8), state.v) /\ Le(state.v, Half(16))
        /\ state.seed < EXACT_SEEDS => state.h = lcg(state.seed)
        /\ state.seed = 0 => state.h = RNG_c

\* the hash of the first seed whose product is rounded is one less than the
\* formula's
C15_Rounded ==
    /\ state.called /\ state.seed = EXACT_SEEDS + 1
    /\ state.h = 1159229952 /\ lcg(state.seed) = 1159229953

\* C16: after an Advance of a running game, gameEnd is true if and only if
\* the lives are 0, or nextPipeIdx equals the schedule's length and no pipe is
\* live.
C16_EndIff ==
    advanced =>
        (state.gameEnd <=>
            \/ state.lives = 0
            \/ (state.nextPipeIdx = Len(sched) /\ state.pipes = << >>))

\* a game with a pipe to come or on screen went on, and later the last pipe
\* left and ended the game with lives to spare
C16_Witness ==
    /\ advanced /\ state.gameEnd /\ state.lives > 0 /\ Len(sched) > 0
    /\ prev.nextPipeIdx = Len(sched) /\ prev.pipes # << >> /\ ~prev.gameEnd

\* C18: in the edge-latch variant, after every Advance of a running game
\* inContact tells whether a collision (pipe or screen edge) was detected in
\* that step, and lives is one less than before if and only if a collision
\* was detected and inContact was false before the step; otherwise lives is
\* unchanged.
C18_LatchStep ==
    (variant = "latch" /\ advanced) =>
        /\ state.inContact <=> collidedOut(prev)
        /\ state.lives = prev.lives - 1 <=> (collidedOut(prev) /\ ~prev.inContact)
        /\ state.lives # prev.lives - 1 => state.lives = prev.lives

\* contact went on from the step before and cost no life, then ended
C18_Witness ==
    /\ variant = "latch" /\ advanced
    /\ prev.inContact /\ collidedOut(prev) /\ state.inContact
    /\ state.lives = prev.lives /\ state.lives < 3

(* the descriptors' pixel sizes, as the spawn loop converts them *)
pipeOf(q) == sched[q.id + 1]

\* the pipes of the state that were not in the state before
isNew(q) == \A i \in 1..Len(prev.pipes) : prev.pipes[i].id # q.id

\* C19: after every Advance of a running game that produces tick count t:
\* the pipes spawned in the step are exactly the descriptors from the old
\* nextPipeIdx up to the new one, each with id equal to its schedule index;
\* every descriptor with index below the new nextPipeIdx has spawn time
\* <= t * 16 ms; and if the new nextPipeIdx is below the schedule's length,
\* that descriptor's spawn time is > t * 16 ms.
C19_SpawnDue ==
    advanced =>
        LET t == state.gameTime
            n == state.nextPipeIdx
        IN  /\ t = prev.gameTime + 1
            /\ prev.nextPipeIdx <= n /\ n <= Len(sched)
            /\ \A i \in 0..(n - 1) : sched[i + 1].time <= t * 16
            /\ n < Len(sched) => sched[n + 1].time > t * 16
            /\ {state.pipes[j].id : j \in {j \in 1..Len(state.pipes) : isNew(state.pipes[j])}}
                 = prev.nextPipeIdx..(n - 1)
            /\ \A j \in 1..Len(state.pipes) :
                 LET q == state.pipes[j]
                 IN  /\ q.id \in 0..(n - 1)
                     /\ 100 * q.gapYpx = pipeOf(q).gapY * 400
                     /\ 100 * q.gapHpx = pipeOf(q).gapH * 400

\* two pipes were spawned in one step
C19_Witness ==
    /\ advanced /\ state.nextPipeIdx = prev.nextPipeIdx + 2
    /\ Len(state.pipes) = Len(prev.pipes) + 2
    /\ state.nextPipeIdx < Len(sched)

\* the pipe speed of the variant
speed == IF variant = "latch" THEN 5 ELSE 3

\* C20: after every Advance of a running game each pipe that was live has x
\* less by exactly the pipe speed, each pipe spawned in the step has x = 600
\* minus the pipe speed, a pipe is removed if and only if its new x + 50 < 0,
\* and the others keep their order; the live list is always in strictly
\* increasing id order with non-decreasing x, and every live id is below
\* nextPipeIdx.
C20_MoveAndCull ==
    /\ \A j \in 1..Len(state.pipes) :
         /\ state.pipes[j].id < state.nextPipeIdx
         /\ \A k \in (j + 1)..Len(state.pipes) :
              /\ state.pipes[j].id < state.pipes[k].id
              /\ state.pipes[j].x <= state.pipes[k].x
    /\ advanced =>
         /\ \A i \in 1..Len(prev.pipes) :
              LET p == prev.pipes[i]
                  kept == {j \in 1..Len(state.pipes) : state.pipes[j].id = p.id}
              IN  /\ kept = {} <=> (p.x - speed) + 50 < 0
                  /\ \A j \in kept : state.pipes[j].x = p.x - speed
         /\ \A j \in 1..Len(state.pipes) :
              isNew(state.pipes[j]) =>
                 /\ state.pipes[j].x = 600 - speed
                 /\ state.pipes[j].id >= prev.nextPipeIdx

\* a pipe was removed and a later one stayed, moved by the pipe speed
C20_Witness ==
    /\ advanced /\ prev.pipes # << >> /\ state.pipes # << >>
    /\ (prev.pipes[1].x - speed) + 50 < 0
    /\ \E i \in 2..Len(prev.pipes) :
          /\ state.pipes[1].id = prev.pipes[i].id
          /\ state.pipes[1].x = prev.pipes[i].x - speed

\* the last intent was an Advance that cost a life
lostLife == advanced /\ state.lives = prev.lives - 1

\* the surfaces struck in the last Advance: the screen's edges by the
\* unclamped position, the pipes by the clamped bird
struckCeiling == Lt(unclampedY(prev), Px(15))

struckFloor == Gt(unclampedY(prev), Px(385))

struckUpperPipe ==
    \E j \in 1..Len(state.pipes) :
        LET q == state.pipes[j]
        IN  /\ 201 > q.x /\ 159 < q.x + 50
            /\ Lt(Add(state.birdY, Px(-15)), Half(2 * q.gapYpx - q.gapHpx))

struckLowerPipe ==
    \E j \in 1..Len(state.pipes) :
        LET q == state.pipes[j]
        IN  /\ 201 > q.x /\ 159 < q.x + 50
            /\ Gt(Add(state.birdY, Px(15)), Half(2 * q.gapYpx + q.gapHpx))

\* the magnitude of the bounce of the last Advance
magnitude ==
    generateBounceVelocity(state.gameTime * 997 + prev.score * 101 + prev.lives * 13)

\* the bounce rule: down from the ceiling or an upper pipe, up otherwise
bounceRule ==
    /\ Le(Half(8), magnitude) /\ Le(magnitude, Half(16))
    /\ state.birdVy = IF struckCeiling \/ struckUpperPipe
                      THEN magnitude ELSE Neg(magnitude)

C17_WitnessFloor ==
    /\ lostLife /\ struckUpperPipe /\ struckFloor
    /\ Gt(state.birdVy, Half(0))

\* a life was lost on the floor alone, and the bird was sent up
C17_WitnessUp ==
    /\ lostLife /\ struckFloor /\ ~struckUpperPipe
    /\ Lt(state.birdVy, Half(0))

\* the last intent was an Advance of a running game that cost no life
noLoss == advanced /\ state.lives = prev.lives

\* |v| of a vertical number
Abs(v) == IF Lt(v, Half(0)) THEN Neg(v) ELSE v

\* the bird was at a bound before the last Advance and the Advance clamped
\* it there again
pinnedAtFloor == struckFloor /\ prev.birdY = Px(385) /\ state.birdY = Px(385)

pinnedAtCeiling == struckCeiling /\ prev.birdY = Px(15) /\ state.birdY = Px(15)

\* C21 as stated: on every Advance of a running game that loses no life the
\* new birdVy is the old birdVy + 0.5, also when birdY is clamped, and while
\* the bird stays pinned at a bound the magnitude of its velocity grows.
C21_Original ==
    noLoss =>
        /\ state.birdVy = Add(prev.birdVy, Half(1))
        /\ (pinnedAtFloor \/ pinnedAtCeiling) =>
              Gt(Abs(state.birdVy), Abs(prev.birdVy))

\* C21: on every Advance of a running game that loses no life the new birdVy
\* is the old birdVy + 0.5 exactly, also when birdY is clamped to 15 or 385;
\* the clamp never resets or caps the velocity.  Pinned at the floor the
\* velocity is downward and its magnitude grows by 0.5 a step; pinned at the
\* ceiling the velocity is upward and its magnitude shrinks by 0.5 a step.
C21_Gravity ==
    noLoss =>
        /\ state.birdVy = Add(prev.birdVy, Half(1))
        /\ struckFloor => (state.birdY = Px(385) /\ Gt(state.birdVy, Half(0)))
        /\ struckCeiling => (state.birdY = Px(15) /\ Lt(state.birdVy, Half(0)))
        /\ pinnedAtFloor => Abs(state.birdVy) = Add(Abs(prev.birdVy), Half(1))
        /\ pinnedAtCeiling => Abs(prev.birdVy) = Add(Abs(state.birdVy), Half(1))

\* the bird stayed pinned at the ceiling at no cost and its velocity shrank
C21_Witness ==
    /\ noLoss /\ pinnedAtCeiling
    /\ Lt(Abs(state.birdVy), Abs(prev.birdVy))

\* the bird stayed pinned at the floor at no cost and its velocity grew
C21_WitnessFloor ==
    /\ noLoss /\ pinnedAtFloor
    /\ Gt(Abs(state.birdVy), Abs(prev.birdVy))

(* ------------------------- runs without Restart ------------------------ *)

\* tick$ of either driver: interval(TICK_RATE_MS) never stops, and a run is
\* followed here as long as no R key is pressed
TickLive ==
    /\ variant = "cooldown" \/ ~state.gameEnd
    /\ \/ state.gameEnd
       \/ state.gameTime < (IF variant = "latch" THEN MaxTickLive ELSE MaxTickPartLive)
    /\ state' = tickOf(state, sched)
    /\ prev' = state
    /\ lastOp' = "tick"
    /\ hist' = histAfterTick(hist, state, state', collidedOut(state), pipeHitOut(state))
    /\ UNCHANGED <<variant, sched>>

\* flap$ of either driver
FlapLive ==
    /\ variant = "cooldown" \/ ~state.gameEnd
    /\ \/ state.gameEnd
       \/ state.gameTime % (IF variant = "latch" THEN FlapEveryLive ELSE FlapEveryPartLive) = 0
    /\ state' = flap(state)
    /\ prev' = state
    /\ lastOp' = "flap"
    /\ UNCHANGED <<variant, sched, hist>>

NextLive == TickLive \/ FlapLive

\* what a step of TickLive shows of itself: the state it was applied to and
\* its kind
TickDue ==
    /\ variant = "cooldown" \/ ~state.gameEnd
    /\ \/ state.gameEnd
       \/ state.gameTime < (IF variant = "latch" THEN MaxTickLive ELSE MaxTickPartLive)
    /\ prev' = state
    /\ lastOp' = "tick"

\* the interval timer fires again and again: the steps of TickLive are the
\* steps of NextLive that satisfy TickDue
SpecLive == Init /\ [][NextLive]_vars /\ WF_<<prev, lastOp>>(TickDue)

\* the tick on which descriptor d is spawned: the first t >= 1 with
\* d.time <= t * 16 ms
spawnTick(d) == IF d.time = 0 THEN 1 ELSE (d.time + 15) \div 16

\* the Advance that drops the last pipe of the schedule; the first Advance if
\* there is none
lastCull == IF sched = << >> THEN 1 ELSE spawnTick(sched[Len(sched)]) + cullTick - 1

\* C22: in a run without Restart in which Advance intents keep coming, with
\* Flap intents interleaved at will, a state with gameEnd = true is reached
\* eventually, at the latest on the Advance that drops the last pipe of the
\* schedule.
C22_Terminates ==
    /\ <>state.gameEnd
    /\ [](state.gameTime >= lastCull => state.gameEnd)

\* the run lasted until the last pipe of a schedule of several was dropped
C22_Witness ==
    /\ Len(sched) > 1 /\ lastOp = "tick" /\ ~prev.gameEnd /\ state.gameEnd
    /\ state.lives > 0 /\ state.gameTime = lastCull /\ state.gameStarted

\* the live pipes not yet passed
unpassed == {i \in 1..Len(state.pipes) : ~state.pipes[i].passed}

\* C23: in every reachable state of both variants the score is at most
\* nextPipeIdx minus the number of live pipes whose passed flag is false;
\* within a run (no Restart) the score never decreases, a step adds at most
\* one point for each pipe whose passed flag it sets, and passed never goes
\* from true back to false for a live pipe.
C23_ScoreBound ==
    /\ state.score >= 0
    /\ state.score <= state.nextPipeIdx - Cardinality(unpassed)
    /\ lastOp \in {"tick", "flap"} =>
         /\ state.score >= prev.score
         /\ state.score - prev.score <= Cardinality(newlyPassed)
         /\ variant = "cooldown" => state.score - prev.score = Cardinality(newlyPassed)
         /\ \A i \in 1..Len(state.pipes) :
              wasPassed(state.pipes[i]) => state.pipes[i].passed

\* two pipes were passed in one step and two points awarded, with a pipe not
\* yet passed still to come
C23_Witness ==
    /\ advanced /\ Cardinality(newlyPassed) = 2 /\ state.score = prev.score + 2
    /\ unpassed # {} /\ state.score = state.nextPipeIdx - Cardinality(unpassed)

\* a pipe was passed without a point: the bound is not reached
C23_WitnessStrict ==
    /\ advanced /\ newlyPassed # {} /\ state.score = prev.score
    /\ state.score < state.nextPipeIdx - Cardinality(unpassed)

\* the pipes of the state before the last Advance that the Advance dropped
dropped ==
    {i \in 1..Len(prev.pipes) :
        \A j \in 1..Len(state.pipes) : state.pipes[j].id # prev.pipes[i].id}

\* C24: when a run without Restart has reached gameEnd = true with lives > 0,
\* nextPipeIdx equals the schedule's length, no pipe is live, and the score
\* is the schedule's length in the cooldown variant and the number of
\* scheduled pipes that never overlapped the bird outside their gap in the
\* edge-latch variant; and no Advance drops a pipe that has not been passed.
C24_FinalScore ==
    /\ (state.gameEnd /\ state.lives > 0) =>
         /\ state.nextPipeIdx = Len(sched)
         /\ state.pipes = << >>
         /\ hist.hitIds \subseteq 0..(Len(sched) - 1)
         /\ state.score = IF variant = "cooldown" THEN Len(sched)
                          ELSE Len(sched) - Cardinality(hist.hitIds)
    /\ advanced => \A i \in dropped : prev.pipes[i].passed

\* a run of the edge-latch variant over three pipes ended with lives to
\* spare, a pipe touched and a point for each of the others
C24_Witness ==
    /\ variant = "latch" /\ Len(sched) = 3 /\ advanced /\ dropped # {}
    /\ state.gameEnd /\ state.lives > 0
    /\ hist.hitIds # {} /\ state.score = 3 - Cardinality(hist.hitIds)
    /\ state.score > 0

\* a run of the cooldown variant over three pipes ended with lives to spare
\* and three points, though pipes had been struck
C24_WitnessCooldown ==
    /\ variant = "cooldown" /\ Len(sched) = 3 /\ advanced /\ dropped # {}
    /\ state.gameEnd /\ state.lives > 0
    /\ hist.hitIds # {} /\ state.score = 3

====
